---- MODULE Spec2Model ----
(***************************************************************************)
(* Model of examples/batch_runner.py: BatchTestRunner.                     *)
(*   test_single_download_link  - one test case on one page                *)
(*   run_batch_tests            - the driver looping over the dataset      *)
(* The Chinese literals of the source are written in ASCII here:           *)
(*   "SUCCESS" is the status "chenggong", "FAILURE" is "shibai".           *)
(***************************************************************************)
EXTENDS Naturals, Sequences, FiniteSets

(* ---------------------------- bounds ---------------------------------- *)
\* rows of the page that contain material_name
MaxRows == 2
\* anchors on the page, all rows together
MaxAnchors == 2
\* rows of the dataset
MaxCases == 2
\* rows and anchors of the pages served to the batch driver
BatchRows == 1
BatchAnchors == 1

(* ------------------------- strings and attributes --------------------- *)
\* A string is a sequence of one-character strings; an attribute read by
\* get_attribute is None (present = FALSE) or a string.
Str(s) == [present |-> TRUE, value |-> s]
None == [present |-> FALSE, value |-> <<>>]

kbbgStr == <<"k", "b", "b", "g">>
downloadStr == <<"d", "o", "w", "n", "l", "o", "a", "d">>

\* str.lower() on the characters that occur in the model
LowerChar(c) ==
  CASE c = "K" -> "k"
    [] c = "B" -> "b"
    [] c = "G" -> "g"
    [] c = "D" -> "d"
    [] c = "L" -> "l"
    [] c = "O" -> "o"
    [] c = "W" -> "w"
    [] c = "N" -> "n"
    [] c = "A" -> "a"
    [] c = "P" -> "p"
    [] c = "F" -> "f"
    [] OTHER -> c

Lower(s) == [i \in 1..Len(s) |-> LowerChar(s[i])]

\* Python's `sub in s`
Contains(sub, s) ==
  \E i \in 0..Len(s) :
    /\ i + Len(sub) <= Len(s)
    /\ SubSeq(s, i + 1, i + Len(sub)) = sub

\* Python truthiness of an attribute value: None and "" are falsy
Truthy(a) == a.present /\ a.value # <<>>

\* the whitespace-separated tokens of a class attribute
RECURSIVE TokensFrom(_, _, _)
TokensFrom(s, i, cur) ==
  IF i > Len(s)
    THEN (IF cur = <<>> THEN {} ELSE {cur})
    ELSE IF s[i] = " "
      THEN (IF cur = <<>> THEN {} ELSE {cur}) \cup TokensFrom(s, i + 1, <<>>)
      ELSE TokensFrom(s, i + 1, Append(cur, s[i]))

Tokens(s) == TokensFrom(s, 1, <<>>)

(* ------------------------------ the page ------------------------------ *)
\* An anchor: text = its text matches element_name (the a:text(...) engine of
\* the browser library decides that), and the three attributes the code reads.
Anchor(t, h, o, c) == [text |-> t, href |-> h, onclick |-> o, class |-> c]

PdfHref == Str(<<"/", "a", ".", "p", "d", "f">>)

AnchorKinds ==
  { Anchor(FALSE, PdfHref, None, None),
    Anchor(TRUE, None, None, None),
    Anchor(TRUE, PdfHref, None, None),
    Anchor(TRUE, Str(<<>>), None, None),
    Anchor(TRUE, None, Str(<<"f", "(", ")">>), None),
    Anchor(TRUE, None, None, Str(kbbgStr)),
    Anchor(TRUE, None, None, Str(<<"K", "B", "B", "G">>)),
    Anchor(TRUE, None, None, Str(<<"b", "t", "n", " ", "D", "o", "w", "n", "L", "o", "a", "d">>)) }

\* the ways to cut a sequence of t anchors into r consecutive rows: the row of
\* each anchor, non-decreasing
RowCuts(t, r) ==
  { f \in [1..t -> 1..r] : \A i \in 1..t : \A j \in 1..t : i <= j => f[i] <= f[j] }

RECURSIVE SelectIdx(_, _, _)
\* the indices i >= from of 1..n with keep[i], in order
SelectIdx(keep, from, n) ==
  IF from > n THEN <<>>
  ELSE IF keep[from] THEN <<from>> \o SelectIdx(keep, from + 1, n)
  ELSE SelectIdx(keep, from + 1, n)

MkPage(as, cut, r) ==
  [k \in 1..r |->
     LET idx == SelectIdx([i \in 1..Len(as) |-> cut[i] = k], 1, Len(as))
     IN  [j \in 1..Len(idx) |-> as[idx[j]]]]

\* every page of at most maxRows rows (each containing material_name) holding
\* at most maxAnchors anchors in all
Pages(maxRows, maxAnchors) ==
  UNION { UNION { { MkPage(as, cut, r) : as \in [1..t -> AnchorKinds], cut \in RowCuts(t, r) }
                  : t \in (IF r = 0 THEN {0} ELSE 0..maxAnchors) }
          : r \in 0..maxRows }

(* ------------------------------ locators ------------------------------ *)
\* MatchingLinks with the text filter lost: row.locator("a")
AllLinks(row) == SelectIdx([i \in 1..Len(row) |-> TRUE], 1, Len(row))

\* row.locator("a:text('<element_name>')"): the anchors of the row whose text
\* matches, as their positions in the row, in document order
MatchingLinks(row) == SelectIdx([i \in 1..Len(row) |-> row[i].text], 1, Len(row))

\* the CSS class selector a.kbbg
HasClass(a, token) == a.class.present /\ token \in Tokens(a.class.value)

\* target_row.locator("a.kbbg:text('<element_name>')")
PreferredLinks(row) ==
  SelectIdx([i \in 1..Len(row) |-> row[i].text /\ HasClass(row[i], kbbgStr)], 1, Len(row))

\* IsDownloadLink with the attributes tested for presence (is not None) and
\* both markers looked for in class_name.lower()
IsDownloadLinkLoose(a) ==
  \/ a.href.present
  \/ a.onclick.present
  \/ /\ Truthy(a.class)
     /\ \/ Contains(kbbgStr, Lower(a.class.value))
        \/ Contains(downloadStr, Lower(a.class.value))

\* line 112: href or onclick or (class_name and ("kbbg" in class_name or
\* "download" in class_name.lower()))
IsDownloadLink(a) ==
  \/ Truthy(a.href)
  \/ Truthy(a.onclick)
  \/ /\ Truthy(a.class)
     /\ \/ Contains(kbbgStr, a.class.value)
        \/ Contains(downloadStr, Lower(a.class.value))

\* StrictAccepts reading the first anchor of the row, whatever its text
StrictAcceptsFirstAnchor(row) == Len(row) > 0 /\ IsDownloadLink(row[1])

\* lines 99-112: the row has a matching anchor and its first one passes
StrictAccepts(row) ==
  LET links == MatchingLinks(row)
  IN  Len(links) > 0 /\ IsDownloadLink(row[links[1]])

\* FallbackAccepts counting every anchor of the row
FallbackAcceptsAnyLink(row) == Len(row) > 0

\* lines 125-126
FallbackAccepts(row) == Len(MatchingLinks(row)) > 0

RECURSIVE StrictScanLast(_, _)
\* StrictScan without the break of line 116: the last accepted row wins
StrictScanLast(rows, i) ==
  IF i > Len(rows) THEN 0
  ELSE IF StrictScanLast(rows, i + 1) > 0 THEN StrictScanLast(rows, i + 1)
  ELSE IF StrictAccepts(rows[i]) THEN i
  ELSE 0

RECURSIVE StrictScan(_, _)
\* lines 96-118: the first row from i on that the strict test accepts, 0 if none
StrictScan(rows, i) ==
  IF i > Len(rows) THEN 0
  ELSE IF StrictAccepts(rows[i]) THEN i
  ELSE StrictScan(rows, i + 1)

RECURSIVE FallbackScanLast(_, _)
\* FallbackScan without the break of line 130
FallbackScanLast(rows, i) ==
  IF i > Len(rows) THEN 0
  ELSE IF FallbackScanLast(rows, i + 1) > 0 THEN FallbackScanLast(rows, i + 1)
  ELSE IF FallbackAccepts(rows[i]) THEN i
  ELSE 0

RECURSIVE FallbackScan(_, _)
\* lines 123-130
FallbackScan(rows, i) ==
  IF i > Len(rows) THEN 0
  ELSE IF FallbackAccepts(rows[i]) THEN i
  ELSE FallbackScan(rows, i + 1)

\* the number of rows each pass looks at when no query raises
StrictExamined(rows) ==
  IF StrictScan(rows, 1) > 0 THEN StrictScan(rows, 1) ELSE Len(rows)

FallbackExamined(rows) ==
  IF StrictScan(rows, 1) > 0 THEN 0
  ELSE IF FallbackScan(rows, 1) > 0 THEN FallbackScan(rows, 1) ELSE Len(rows)

\* lines 156-164
ChooseLink(row) ==
  LET target_links == MatchingLinks(row)
  IN  IF Len(target_links) > 1
        THEN IF Len(PreferredLinks(row)) > 0
               THEN PreferredLinks(row)
               ELSE <<target_links[1]>>
        ELSE target_links

(* --------------------------- file names ------------------------------- *)
FileNames ==
  { <<"a", ".", "p", "d", "f">>, <<"A", ".", "P", "D", "F">>, <<"a">> }

RECURSIVE LastDot(_, _)
\* the position of the last "." of s at or before i, 0 if none
LastDot(s, i) ==
  IF i = 0 THEN 0 ELSE IF s[i] = "." THEN i ELSE LastDot(s, i - 1)

\* os.path.splitext(name)[1]: from the last dot on, unless only dots precede it
SplitExt(s) ==
  LET d == LastDot(s, Len(s))
  IN  IF d > 0 /\ (\E j \in 1..(d - 1) : s[j] # ".")
        THEN SubSeq(s, d, Len(s))
        ELSE <<>>

RECURSIVE LStripDot(_)
LStripDot(s) ==
  IF s # <<>> /\ s[1] = "." THEN LStripDot(Tail(s)) ELSE s

\* FileType without the lower() of line 229
FileTypeKeepsCase(name) ==
  IF SplitExt(name) # <<>> THEN LStripDot(SplitExt(name)) ELSE <<>>

\* lines 228-229
FileType(name) ==
  IF SplitExt(name) # <<>> THEN LStripDot(Lower(SplitExt(name))) ELSE <<>>

(* ------------------------------ state --------------------------------- *)
VARIABLES
  page,           \* the rendered page: the rows matching tr:has-text(material_name)
  pc,             \* position in test_single_download_link
  response,       \* what page.goto returned: "" before the call, "raised", "none"
                  \* for no response, or the status of the response
  found,          \* local found
  target_row,     \* local target_row: a row number of page, 0 for None
  download_link,  \* local download_link: the anchors of target_row the locator denotes
  target,         \* local target: the target attribute of download_link
  linkState,      \* the anchor as it is when the wait of line 167 ends: visible, enabled
  armed,          \* a wait for the download event is registered
  popups,         \* pages opened by the click and not closed
  download,       \* suggested_filename of the download received, <<>> if none
  result,         \* the tuple returned
  scanlog,        \* what the row scan did: rows examined by each pass, prints
  count,          \* calls made so far: goto, scan, click, screenshot; the load waits
                  \* that timed out, the screenshots that were captured and the
                  \* downloads that save_as wrote
  dpc,            \* position in main / run_batch_tests
  ncases,         \* len(df)
  df,             \* df, one record per row: its input fields and the result columns
  index,          \* the row of df being handled
  pagesOpen,      \* case pages opened by the driver and not closed
  abortAt,        \* where the run was abandoned, "" if it was not
  saved,          \* df.to_excel has written the results file
  browser,        \* the browser of line 283: "none", "open" or "closed"
  validator       \* a call of DocumentValidator.validate_documents or of
                  \* _parse_validation_response: position, inputs, result

caseVars ==
  <<page, pc, response, found, target_row, download_link, target, linkState, armed, popups,
    download, result, scanlog, count>>

driverVars == <<dpc, ncases, df, index, pagesOpen, abortAt, saved, browser>>

vars == <<caseVars, driverVars, validator>>

NoResult == [status |-> "", message |-> <<>>, details |-> <<>>, file_type |-> <<>>]

\* the failure tuples: ("FAILURE", message, "", "")
Fail(msg) == [status |-> "FAILURE", message |-> msg, details |-> <<>>, file_type |-> <<>>]

Unchecked == [checked |-> FALSE, visible |-> FALSE, enabled |-> FALSE]

NoScan == [raised |-> FALSE, strict |-> 0, fallback |-> 0, usedFallback |-> FALSE]

NoCalls ==
  [goto |-> 0, scan |-> 0, click |-> 0, screenshot |-> 0, timeouts |-> 0, shots |-> 0,
   saves |-> 0]

\* the state of a call of test_single_download_link on page p
CaseStart(p) ==
  /\ page = p
  /\ pc = "goto"
  /\ response = ""
  /\ found = FALSE
  /\ target_row = 0
  /\ download_link = <<>>
  /\ target = None
  /\ linkState = Unchecked
  /\ armed = FALSE
  /\ popups = 0
  /\ download = <<>>
  /\ result = NoResult
  /\ scanlog = NoScan
  /\ count = NoCalls

Return(r) == result' = r /\ pc' = "ret"

(* ------------------- test_single_download_link ------------------------ *)
Statuses == {"200", "404"}

\* ResponseOk without the test of line 70
ResponseOkAlways(status) == TRUE

\* response.ok
ResponseOk(status) == status = "200"

\* Goto trying again when page.goto raises
GotoRetries ==
  /\ pc = "goto"
  /\ count' = [count EXCEPT !.goto = @ + 1]
  /\ \/ pc' = "goto" /\ result' = result /\ response' = "raised"
     \/ Return(Fail(<<"NAVIGATION_FAILED", "no response">>)) /\ response' = "none"
     \/ \E status \in Statuses :
          /\ response' = status
          /\ IF ResponseOk(status)
               THEN pc' = "loadwait" /\ result' = result
               ELSE Return(Fail(<<"NAVIGATION_FAILED", status>>))
  /\ UNCHANGED <<page, found, target_row, download_link, target, linkState, armed,
                 popups, download, scanlog>>
  /\ UNCHANGED <<driverVars, validator>>

\* lines 68-71: page.goto
Goto ==
  /\ pc = "goto"
  /\ count' = [count EXCEPT !.goto = @ + 1]
  /\ \/ pc' = "except" /\ result' = result /\ response' = "raised"
     \/ Return(Fail(<<"NAVIGATION_FAILED", "no response">>)) /\ response' = "none"
     \/ \E status \in Statuses :
          /\ response' = status
          /\ IF ResponseOk(status)
               THEN pc' = "loadwait" /\ result' = result
               ELSE Return(Fail(<<"NAVIGATION_FAILED", status>>))
  /\ UNCHANGED <<page, found, target_row, download_link, target, linkState, armed,
                 popups, download, scanlog>>
  /\ UNCHANGED <<driverVars, validator>>

\* WaitLoadState without the try of line 75: the timeout goes to the handler
\* of line 240
WaitLoadStateRaises ==
  /\ pc = "loadwait"
  /\ \E timedOut \in BOOLEAN :
       /\ count' = [count EXCEPT !.timeouts = IF timedOut THEN @ + 1 ELSE @]
       /\ pc' = IF timedOut THEN "except" ELSE "scan"
  /\ UNCHANGED <<page, response, found, target_row, download_link, target, linkState, armed,
                 popups, download, result, scanlog>>
  /\ UNCHANGED <<driverVars, validator>>

\* lines 75-80: wait_for_load_state("networkidle"); a timeout is printed and dropped
WaitLoadState ==
  /\ pc = "loadwait"
  /\ \E timedOut \in BOOLEAN :
       /\ count' = [count EXCEPT !.timeouts = IF timedOut THEN @ + 1 ELSE @]
       /\ pc' = "scan"
  /\ UNCHANGED <<page, response, found, target_row, download_link, target, linkState, armed,
                 popups, download, result, scanlog>>
  /\ UNCHANGED <<driverVars, validator>>

\* NotFound with the message of the catch-all handler instead of line 136's
NotFoundCatchAll == Fail(<<"UNEXPECTED_ERROR">>)

\* line 136
NotFound == Fail(<<"NOT_FOUND">>)

\* AfterScan without the test of line 135
AfterScanNoTest(hit) == "rowvisible"

\* lines 135-136: if not found or target_row is None: return
AfterScan(hit) == IF hit > 0 THEN "rowvisible" ELSE "ret"

\* ScanRows without the try of line 90: an exception of a page query goes to
\* the handler of line 240
ScanRowsPropagates ==
  /\ pc = "scan"
  /\ count' = [count EXCEPT !.scan = @ + 1]
  /\ \E exc \in 0..(StrictExamined(page) + FallbackExamined(page) + 1) :
       LET all == StrictExamined(page) + FallbackExamined(page)
           raised == exc <= all
           strictHit == StrictScan(page, 1)
           hit == IF raised THEN 0
                  ELSE IF strictHit > 0 THEN strictHit ELSE FallbackScan(page, 1)
           sEx == IF raised /\ exc < StrictExamined(page) THEN exc ELSE StrictExamined(page)
           fEx == IF ~raised THEN FallbackExamined(page)
                  ELSE IF exc > StrictExamined(page) THEN exc - StrictExamined(page) ELSE 0
           fellBack == strictHit = 0 /\ (~raised \/ exc > StrictExamined(page))
       IN  /\ found' = (hit > 0)
           /\ target_row' = hit
           /\ scanlog' = [raised |-> raised, strict |-> sEx, fallback |-> fEx,
                          usedFallback |-> fellBack]
           /\ pc' = IF raised THEN "except" ELSE AfterScan(hit)
           /\ result' = IF ~raised /\ AfterScan(hit) = "ret" THEN NotFound ELSE result
  /\ UNCHANGED <<page, response, download_link, target, linkState, armed, popups, download>>
  /\ UNCHANGED <<driverVars, validator>>

\* lines 90-136: the strict pass, the fallback pass and the test of found.
\* exc is the row examination during which a page query raises: 0 is the
\* count() of line 92, exc beyond the last examination is no exception.
ScanRows ==
  /\ pc = "scan"
  /\ count' = [count EXCEPT !.scan = @ + 1]
  /\ \E exc \in 0..(StrictExamined(page) + FallbackExamined(page) + 1) :
       LET all == StrictExamined(page) + FallbackExamined(page)
           raised == exc <= all
           strictHit == StrictScan(page, 1)
           hit == IF raised THEN 0
                  ELSE IF strictHit > 0 THEN strictHit ELSE FallbackScan(page, 1)
           sEx == IF raised /\ exc < StrictExamined(page) THEN exc ELSE StrictExamined(page)
           fEx == IF ~raised THEN FallbackExamined(page)
                  ELSE IF exc > StrictExamined(page) THEN exc - StrictExamined(page) ELSE 0
           fellBack == strictHit = 0 /\ (~raised \/ exc > StrictExamined(page))
       IN  /\ found' = (hit > 0)
           /\ target_row' = hit
           /\ scanlog' = [raised |-> raised, strict |-> sEx, fallback |-> fEx,
                          usedFallback |-> fellBack]
           /\ pc' = AfterScan(hit)
           /\ result' = IF AfterScan(hit) = "ret" THEN NotFound ELSE result
  /\ UNCHANGED <<page, response, download_link, target, linkState, armed, popups, download>>
  /\ UNCHANGED <<driverVars, validator>>

\* lines 139-143: expect(target_row).to_be_visible
RowVisible ==
  /\ pc = "rowvisible"
  /\ \E visible \in BOOLEAN :
       IF visible
         THEN pc' = "locate" /\ result' = result
         ELSE Return(Fail(<<"ROW_NOT_VISIBLE">>))
  /\ UNCHANGED <<page, response, found, target_row, download_link, target, linkState, armed,
                 popups, download, scanlog, count>>
  /\ UNCHANGED <<driverVars, validator>>

\* lines 149-164: count the links of the row and choose download_link
LocateLink ==
  /\ pc = "locate"
  /\ \E raised \in BOOLEAN :
       IF raised
         THEN pc' = "except" /\ result' = result /\ download_link' = download_link
         ELSE IF Len(MatchingLinks(page[target_row])) = 0
           THEN Return(Fail(<<"LINK_NOT_IN_ROW">>)) /\ download_link' = download_link
           ELSE /\ download_link' = ChooseLink(page[target_row])
                /\ pc' = "linkvisible"
                /\ result' = result
  /\ UNCHANGED <<page, response, found, target_row, target, linkState, armed, popups, download,
                 scanlog, count>>
  /\ UNCHANGED <<driverVars, validator>>

\* VisibleCheck with the wait of line 167 left out
VisibleCheckSkipped(link, visible) == "attrs"

\* line 167: expect(download_link).to_be_visible; a locator that denotes
\* several elements raises a strict mode violation
VisibleCheck(link, visible) ==
  IF Len(link) = 1 /\ visible THEN "attrs" ELSE "except"

LinkVisible ==
  /\ pc = "linkvisible"
  /\ \E visible \in BOOLEAN, en \in BOOLEAN :
       /\ linkState' = [checked |-> TRUE, visible |-> visible, enabled |-> en]
       /\ pc' = VisibleCheck(download_link, visible)
  /\ UNCHANGED <<page, response, found, target_row, download_link, target, armed, popups,
                 download, result, scanlog, count>>
  /\ UNCHANGED <<driverVars, validator>>

Blank == Str(<<"_", "b", "l", "a", "n", "k">>)

\* lines 173-175: get_attribute href, onclick, target
ReadAttrs ==
  /\ pc = "attrs"
  /\ \/ pc' = "except" /\ target' = target
     \/ \E t \in {None, Blank} : target' = t /\ pc' = "click"
  /\ UNCHANGED <<page, response, found, target_row, download_link, linkState, armed, popups,
                 download, result, scanlog, count>>
  /\ UNCHANGED <<driverVars, validator>>

\* lines 184-187 and 212-213: download_link.click(), inside expect_page when
\* target is "_blank" and inside expect_download otherwise. click() waits for
\* the anchor to be enabled and raises when it is not; everything raised from
\* here to the save is caught at line 234.
Click ==
  /\ pc = "click"
  /\ count' = [count EXCEPT !.click = @ + 1]
  /\ armed' = (target # Blank)
  /\ \/ Return(Fail(<<"DOWNLOAD_FAILED">>)) /\ popups' = popups
     \/ /\ linkState.enabled
        /\ result' = result
        /\ IF target = Blank
             THEN pc' = "popupload" /\ popups' = popups + 1
             ELSE pc' = "waitdl" /\ popups' = popups
  /\ UNCHANGED <<page, response, found, target_row, download_link, target, linkState, download,
                 scanlog>>
  /\ UNCHANGED <<driverVars, validator>>

\* WaitDownload going on to the save when the wait of line 213 times out
WaitDownloadIgnoresTimeout ==
  /\ pc = "waitdl"
  /\ \/ download' = download /\ pc' = "save" /\ result' = result
     \/ \E name \in FileNames : download' = name /\ pc' = "save" /\ result' = result
  /\ UNCHANGED <<page, response, found, target_row, download_link, target, linkState, armed,
                 popups, scanlog, count>>
  /\ UNCHANGED <<driverVars, validator>>

\* lines 212-215: the download event arrives within the wait, or the wait raises
WaitDownload ==
  /\ pc = "waitdl"
  /\ \/ Return(Fail(<<"DOWNLOAD_FAILED">>)) /\ download' = download
     \/ \E name \in FileNames : download' = name /\ pc' = "save" /\ result' = result
  /\ UNCHANGED <<page, response, found, target_row, download_link, target, linkState, armed,
                 popups, scanlog, count>>
  /\ UNCHANGED <<driverVars, validator>>

\* lines 189-197: the new page; a timeout of its load wait is printed and dropped
PopupLoad ==
  /\ pc = "popupload"
  /\ \E timedOut \in BOOLEAN :
       /\ count' = [count EXCEPT !.timeouts = IF timedOut THEN @ + 1 ELSE @]
       /\ pc' = "popupdl"
  /\ UNCHANGED <<page, response, found, target_row, download_link, target, linkState, armed,
                 popups, download, result, scanlog>>
  /\ UNCHANGED <<driverVars, validator>>

\* lines 200-205: new_page.expect_download around no action
PopupDownload ==
  /\ pc = "popupdl"
  /\ armed' = TRUE
  /\ \/ Return(Fail(<<"DOWNLOAD_FAILED">>)) /\ download' = download
     \/ \E name \in FileNames : download' = name /\ pc' = "popupclose" /\ result' = result
  /\ UNCHANGED <<page, response, found, target_row, download_link, target, linkState, popups,
                 scanlog, count>>
  /\ UNCHANGED <<driverVars, validator>>

\* line 208: new_page.close()
PopupClose ==
  /\ pc = "popupclose"
  /\ \/ Return(Fail(<<"DOWNLOAD_FAILED">>)) /\ popups' = popups
     \/ popups' = popups - 1 /\ pc' = "save" /\ result' = result
  /\ UNCHANGED <<page, response, found, target_row, download_link, target, linkState, armed,
                 download, scanlog, count>>
  /\ UNCHANGED <<driverVars, validator>>

\* Save with the file type worked out before save_as and returned by the
\* failure as well
SaveFailureKeepsType ==
  /\ pc = "save"
  /\ \/ /\ Return([Fail(<<"DOWNLOAD_FAILED">>) EXCEPT !.file_type = FileType(download)])
        /\ count' = count
     \/ /\ Return([status |-> "SUCCESS", message |-> <<"DOWNLOADED">>,
                   details |-> <<"downloads/">> \o download,
                   file_type |-> FileType(download)])
        /\ count' = [count EXCEPT !.saves = @ + 1]
  /\ UNCHANGED <<page, response, found, target_row, download_link, target, linkState, armed,
                 popups, download, scanlog>>
  /\ UNCHANGED <<driverVars, validator>>

\* lines 219-232: save_as, the file type, the success tuple; a save_as that
\* raises is caught at line 234
Save ==
  /\ pc = "save"
  /\ \/ Return(Fail(<<"DOWNLOAD_FAILED">>)) /\ count' = count
     \/ /\ Return([status |-> "SUCCESS", message |-> <<"DOWNLOADED">>,
                   details |-> <<"downloads/">> \o download,
                   file_type |-> FileType(download)])
        /\ count' = [count EXCEPT !.saves = @ + 1]
  /\ UNCHANGED <<page, response, found, target_row, download_link, target, linkState, armed,
                 popups, download, scanlog>>
  /\ UNCHANGED <<driverVars, validator>>

\* ErrorMessage with the screenshot name appended before the capture is tried
ErrorMessageAlwaysNamed(shot) == <<"UNEXPECTED_ERROR", "screenshot">>

\* lines 242-250: error_msg, with the name of the screenshot appended after
\* page.screenshot has returned
ErrorMessage(shot) ==
  IF shot THEN <<"UNEXPECTED_ERROR", "screenshot">> ELSE <<"UNEXPECTED_ERROR">>

\* ErrorHandler with the screenshot outside the try of line 245: its failure
\* leaves the function
ErrorHandlerBareScreenshot ==
  /\ pc = "except"
  /\ \E shot \in BOOLEAN :
       /\ count' = [count EXCEPT !.screenshot = @ + 1,
                                 !.shots = IF shot THEN @ + 1 ELSE @]
       /\ IF shot
            THEN Return(Fail(<<"UNEXPECTED_ERROR", "screenshot">>))
            ELSE pc' = "raised" /\ result' = result
  /\ UNCHANGED <<page, response, found, target_row, download_link, target, linkState, armed,
                 popups, download, scanlog>>
  /\ UNCHANGED <<driverVars, validator>>

\* lines 240-252: the catch-all handler; the screenshot is taken inside a
\* try with a bare except
ErrorHandler ==
  /\ pc = "except"
  /\ \E shot \in BOOLEAN :
       /\ count' = [count EXCEPT !.screenshot = @ + 1,
                                 !.shots = IF shot THEN @ + 1 ELSE @]
       /\ Return(Fail(ErrorMessage(shot)))
  /\ UNCHANGED <<page, response, found, target_row, download_link, target, linkState, armed,
                 popups, download, scanlog>>
  /\ UNCHANGED <<driverVars, validator>>

TestSingleDownloadLink ==
  \/ Goto
  \/ WaitLoadState
  \/ ScanRows
  \/ RowVisible
  \/ LocateLink
  \/ LinkVisible
  \/ ReadAttrs
  \/ Click
  \/ WaitDownload
  \/ PopupLoad
  \/ PopupDownload
  \/ PopupClose
  \/ Save
  \/ ErrorHandler

(* ---------------------- main and run_batch_tests ----------------------- *)
\* row k of df as read: its input fields (url, material name, element name)
\* stand as k, the three result columns are empty
NoRow(k) == [input |-> k, exec_time |-> "", exec_result |-> <<>>, file_format |-> <<>>]

BatchPages == Pages(BatchRows, BatchAnchors)

Abort(where) == dpc' = "aborted" /\ abortAt' = where

\* the locals of a call of test_single_download_link as the call begins on
\* page p (at = "goto"), and as they are once it has returned (at = "idle")
EnterCase(p, at) ==
  /\ page' = p
  /\ pc' = at
  /\ response' = ""
  /\ found' = FALSE
  /\ target_row' = 0
  /\ download_link' = <<>>
  /\ target' = None
  /\ linkState' = Unchecked
  /\ armed' = FALSE
  /\ download' = <<>>
  /\ result' = NoResult
  /\ scanlog' = NoScan
  /\ count' = NoCalls
  /\ popups' = popups

\* main, lines 381-383: os.path.exists(args.input_file)
CheckInputFile ==
  /\ dpc = "main"
  /\ \E exists \in BOOLEAN :
       IF exists THEN dpc' = "read" /\ abortAt' = abortAt ELSE Abort("no input file")
  /\ UNCHANGED <<ncases, df, index, pagesOpen, saved, browser>>
  /\ UNCHANGED caseVars
  /\ UNCHANGED validator

\* lines 260-277: read_excel, the required columns, the three result columns
ReadInput ==
  /\ dpc = "read"
  /\ \/ Abort("read failed") /\ UNCHANGED <<ncases, df>>
     \/ Abort("missing columns") /\ UNCHANGED <<ncases, df>>
     \/ \E n \in 0..MaxCases :
          /\ ncases' = n
          /\ df' = [k \in 1..n |-> NoRow(k)]
          /\ dpc' = "launch"
          /\ abortAt' = abortAt
  /\ UNCHANGED <<index, pagesOpen, saved, browser>>
  /\ UNCHANGED caseVars
  /\ UNCHANGED validator

\* lines 282-284: async_playwright, chromium.launch, new_context
Launch ==
  /\ dpc = "launch"
  /\ \/ Abort("launch failed") /\ browser' = browser
     \/ dpc' = "loop" /\ abortAt' = abortAt /\ browser' = "open"
  /\ UNCHANGED <<ncases, df, index, pagesOpen, saved>>
  /\ UNCHANGED caseVars
  /\ UNCHANGED validator

\* lines 290-312: the next row of df, context.new_page() (outside the try of
\* line 308) and the call of test_single_download_link on the page of its url
NewPage ==
  /\ dpc = "loop"
  /\ index <= ncases
  /\ \/ Abort("new_page failed") /\ UNCHANGED <<pagesOpen, caseVars>>
     \/ /\ dpc' = "call"
        /\ abortAt' = abortAt
        /\ pagesOpen' = pagesOpen + 1
        /\ \E p \in BatchPages : EnterCase(p, "goto")
  /\ UNCHANGED <<ncases, df, index, saved, browser>>
  /\ UNCHANGED validator

\* Recorded writing the message alone, without the status in front of it
RecordedMessageOnly(row, r) ==
  [row EXCEPT !.exec_time = "now",
              !.exec_result = r.message,
              !.file_format = IF r.file_type # <<>> THEN r.file_type ELSE <<>>]

\* lines 314-318 (and 331-335): the three result columns of a row once the
\* tuple r is written to it; the input fields are not assigned
Recorded(row, r) ==
  [row EXCEPT !.exec_time = "now",
              !.exec_result = <<r.status>> \o r.message,
              !.file_format = IF r.file_type # <<>> THEN r.file_type ELSE <<>>]

\* RecordResult assigning the result columns of every row (df[col] = value in
\* place of df.at[index, col] = value)
RecordResultAllRows ==
  /\ dpc = "call"
  /\ pc \in {"ret", "raised"}
  /\ df' = [k \in 1..Len(df) |->
              IF pc = "ret"
                THEN Recorded(df[k], result)
                ELSE Recorded(df[k], Fail(<<"UNEXPECTED_DRIVER_ERROR">>))]
  /\ dpc' = "close"
  /\ EnterCase(page, "idle")
  /\ UNCHANGED <<ncases, index, pagesOpen, abortAt, saved, browser>>
  /\ UNCHANGED validator

\* lines 310-335: the tuple is written to row index; an exception of the call
\* is written as an unexpected error
RecordResult ==
  /\ dpc = "call"
  /\ pc \in {"ret", "raised"}
  /\ df' = [df EXCEPT ![index] =
              IF pc = "ret"
                THEN Recorded(@, result)
                ELSE Recorded(@, Fail(<<"UNEXPECTED_DRIVER_ERROR">>))]
  /\ dpc' = "close"
  /\ EnterCase(page, "idle")
  /\ UNCHANGED <<ncases, index, pagesOpen, abortAt, saved, browser>>
  /\ UNCHANGED validator

\* run_batch_tests without the finally of lines 337-338: the page of a case
\* stays open when the loop goes on
ClosePageSkipped ==
  /\ dpc = "close"
  /\ \/ Abort("page.close failed") /\ UNCHANGED <<pagesOpen, index, page>>
     \/ /\ pagesOpen' = pagesOpen
        /\ index' = index + 1
        /\ dpc' = "loop"
        /\ abortAt' = abortAt
        /\ page' = <<>>
  /\ UNCHANGED <<ncases, df, saved, browser>>
  /\ UNCHANGED <<pc, response, found, target_row, download_link, target, linkState, armed, popups,
                 download, result, scanlog, count>>
  /\ UNCHANGED validator

\* lines 337-338: finally: page.close()
ClosePage ==
  /\ dpc = "close"
  /\ \/ Abort("page.close failed") /\ UNCHANGED <<pagesOpen, index, page>>
     \/ /\ pagesOpen' = pagesOpen - 1
        /\ index' = index + 1
        /\ dpc' = "loop"
        /\ abortAt' = abortAt
        /\ page' = <<>>
  /\ UNCHANGED <<ncases, df, saved, browser>>
  /\ UNCHANGED <<pc, response, found, target_row, download_link, target, linkState, armed, popups,
                 download, result, scanlog, count>>
  /\ UNCHANGED validator

\* lines 341-346: the summary; the success rate divides by total_count
Summary ==
  /\ dpc = "loop"
  /\ index > ncases
  /\ IF ncases = 0
       THEN Abort("summary failed")
       ELSE dpc' = "browserclose" /\ abortAt' = abortAt
  /\ UNCHANGED <<ncases, df, index, pagesOpen, saved, browser>>
  /\ UNCHANGED caseVars
  /\ UNCHANGED validator

\* line 348: browser.close()
BrowserClose ==
  /\ dpc = "browserclose"
  /\ \/ Abort("browser.close failed") /\ browser' = browser
     \/ dpc' = "save" /\ abortAt' = abortAt /\ browser' = "closed"
  /\ UNCHANGED <<ncases, df, index, pagesOpen, saved>>
  /\ UNCHANGED caseVars
  /\ UNCHANGED validator

\* lines 351-370: df.to_excel; a failure is printed
SaveResults ==
  /\ dpc = "save"
  /\ \E ok \in BOOLEAN : saved' = ok
  /\ dpc' = "done"
  /\ UNCHANGED <<ncases, df, index, pagesOpen, abortAt, browser>>
  /\ UNCHANGED caseVars
  /\ UNCHANGED validator

RunBatchTests ==
  \/ CheckInputFile
  \/ ReadInput
  \/ Launch
  \/ NewPage
  \/ RecordResult
  \/ ClosePage
  \/ Summary
  \/ BrowserClose
  \/ SaveResults

(* -------------------------- DocumentValidator -------------------------- *)
\* the longest text before and after the object in a response
MaxText == 1

\* the six verdicts of ValidationResult; <key>_reason is reason[key]
Keys ==
  {"forms_consistent", "blank_form_matches", "sample_form_matches",
   "blank_form_empty", "sample_form_filled", "sample_info_masked"}

\* ValidationResult(): every verdict None, every reason ""
NewResult == [verdict |-> [k \in Keys |-> "None"], reason |-> [k \in Keys |-> ""]]

\* A response is a sequence of tokens: "fence_json" for the fence opener
\* (three backticks and json), "fence" for three backticks, the braces,
\* "members" for the text between the braces of the object, "x" for a
\* character of other text, " " for white space.
TextChars == {"x", " ", "}"}

RECURSIVE Texts(_)
Texts(n) ==
  IF n = 0 THEN {<<>>}
  ELSE Texts(n - 1) \cup {<<c>> \o t : c \in TextChars, t \in {u \in Texts(n - 1) : Len(u) = n - 1}}

\* what may stand between the texts: nothing, the bare object, the object in
\* a closed fence (with and without line breaks), in a fence that is not
\* closed, an object cut short, members without braces
Middles ==
  { <<>>,
    <<"{", "members", "}">>,
    <<"fence_json", "{", "members", "}", "fence">>,
    <<"fence_json", " ", "{", "members", "}", " ", "fence">>,
    <<"fence_json", "{", "members", "}">>,
    <<"{", "members">>,
    <<"members">> }

Responses == {pre \o mid \o post : pre \in Texts(MaxText), mid \in Middles, post \in Texts(MaxText)}

\* the objects that "members" may spell: every verdict with its reason, one
\* verdict without a reason key, the two verdicts of a blank form
Objects ==
  { [k \in Keys |-> [value |-> "True", reason |-> "r"]],
    [k \in {"forms_consistent"} |-> [value |-> "False", reason |-> ""]],
    [k \in {"blank_form_matches", "blank_form_empty"} |-> [value |-> "True", reason |-> "r"]] }

\* str.find(sub, start) for a one-token sub out of toks: the first position
\* after from that holds one of toks, 0 if none
Find(s, toks, from) ==
  IF \E i \in (from + 1)..Len(s) : s[i] \in toks
    THEN CHOOSE i \in (from + 1)..Len(s) :
           s[i] \in toks /\ \A j \in (from + 1)..(i - 1) : s[j] \notin toks
    ELSE 0

\* str.rfind(tok): the last position that holds tok, 0 if none
RFind(s, tok) ==
  IF \E i \in 1..Len(s) : s[i] = tok
    THEN CHOOSE i \in 1..Len(s) : s[i] = tok /\ \A j \in (i + 1)..Len(s) : s[j] # tok
    ELSE 0

RECURSIVE LStrip(_)
LStrip(s) == IF s # <<>> /\ s[1] = " " THEN LStrip(Tail(s)) ELSE s

RECURSIVE RStrip(_)
RStrip(s) == IF s # <<>> /\ s[Len(s)] = " " THEN RStrip(SubSeq(s, 1, Len(s) - 1)) ELSE s

\* str.strip()
Strip(s) == RStrip(LStrip(s))

\* lines 582-591: the part of content handed to json.loads. The three
\* backticks are also found at the start of a later opener; when none is, find
\* returns -1 and the slice content[json_start:-1] ends before the last
\* character of content.
ExtractJson(content) ==
  IF \E i \in 1..Len(content) : content[i] = "fence_json"
    THEN LET json_start == Find(content, {"fence_json"}, 0)
             json_end == Find(content, {"fence", "fence_json"}, json_start)
         IN  Strip(IF json_end > 0
                     THEN SubSeq(content, json_start + 1, json_end - 1)
                     ELSE SubSeq(content, json_start + 1, Len(content) - 1))
    ELSE IF (\E i \in 1..Len(content) : content[i] = "{")
            /\ (\E i \in 1..Len(content) : content[i] = "}")
      THEN SubSeq(content, Find(content, {"{"}, 0), RFind(content, "}"))
      ELSE content

\* line 594: json.loads returns the object when the text is the object, white
\* space aside, and raises on everything else a response is made of
JsonLoads(text) == SelectSeq(text, LAMBDA c : c # " ") = <<"{", "members", "}">>

\* lines 597-619: every verdict key of data is copied with data.get(<key>_reason, "")
CopyVerdicts(res, data) ==
  [verdict |-> [k \in Keys |-> IF k \in DOMAIN data THEN data[k].value ELSE res.verdict[k]],
   reason |-> [k \in Keys |-> IF k \in DOMAIN data THEN data[k].reason ELSE res.reason[k]]]

\* ParseFailed without the tests of lines 625-636: every reason is overwritten
ParseFailedOverwrites(res) ==
  [res EXCEPT !.reason = [k \in Keys |-> "PARSE_FAILED"]]

\* lines 621-636: the reasons that are still "" get the parse error
ParseFailed(res) ==
  [res EXCEPT !.reason =
     [k \in Keys |-> IF res.reason[k] = "" THEN "PARSE_FAILED" ELSE res.reason[k]]]

\* _parse_validation_response, lines 574-636
ParseValidationResponse(res, content, data) ==
  IF JsonLoads(ExtractJson(content)) THEN CopyVerdicts(res, data) ELSE ParseFailed(res)

\* res with every reason in keys set to msg
WithReasons(res, keys, msg) ==
  [res EXCEPT !.reason = [k \in Keys |-> IF k \in keys THEN msg ELSE res.reason[k]]]

\* the reasons set by the except of the method that made the call: lines
\* 422-430 (both documents), 495-499 (blank form), 567-572 (sample form)
ApiReasonKeys(docs) ==
  IF docs = {"blank", "sample"} THEN Keys
  ELSE IF docs = {"blank"} THEN {"blank_form_matches", "blank_form_empty"}
  ELSE {"sample_form_matches", "sample_form_filled", "sample_info_masked"}

\* no call of the validator is under way
NoValidator ==
  [pc |-> "idle", client |-> FALSE, docs |-> {}, content |-> <<>>,
   data |-> [k \in {} |-> [value |-> "None", reason |-> ""]],
   result |-> NewResult, calls |-> 0, failed |-> "", parsed |-> FALSE]

\* the sets of reasons already filled when _parse_validation_response is
\* called on a result of the caller's
PriorSets == {{}, {"forms_consistent"}, Keys}

\* lines 279-290: the fresh result; without a client every reason is set and
\* the result returned
CheckClient ==
  /\ validator.pc = "start"
  /\ validator' =
       IF validator.client
         THEN [validator EXCEPT !.pc = "images"]
         ELSE [validator EXCEPT !.pc = "done", !.failed = "client",
                                !.result = WithReasons(@, Keys, "CLIENT_UNAVAILABLE")]
  /\ UNCHANGED <<caseVars, driverVars>>

\* lines 292-314 and 327-337: the images; an exception on the way is caught
\* at line 327; with no image nothing is validated
PrepareImages ==
  /\ validator.pc = "images"
  /\ \/ validator' = [validator EXCEPT !.pc = "done", !.failed = "images",
                                       !.result = WithReasons(@, Keys, "VALIDATION_ERROR")]
     \/ validator' = [validator EXCEPT !.pc = IF validator.docs = {} THEN "done" ELSE "api"]
  /\ UNCHANGED <<caseVars, driverVars>>

\* lines 409-430, 484-499, 556-572: chat.completions.create; a failure sets
\* the reasons of the method's except
CallApi ==
  /\ validator.pc = "api"
  /\ \/ validator' = [validator EXCEPT !.pc = "done", !.failed = "api", !.calls = @ + 1,
                                       !.result = WithReasons(@, ApiReasonKeys(validator.docs),
                                                              "API_FAILED")]
     \/ validator' = [validator EXCEPT !.pc = "parse", !.calls = @ + 1]
  /\ UNCHANGED <<caseVars, driverVars>>

\* lines 420, 493, 565: the response is parsed into the result
ParseResponse ==
  /\ validator.pc = "parse"
  /\ validator' =
       [validator EXCEPT
          !.pc = "done",
          !.parsed = TRUE,
          !.failed = IF JsonLoads(ExtractJson(validator.content)) THEN "" ELSE "parse",
          !.result = ParseValidationResponse(@, validator.content, validator.data)]
  /\ UNCHANGED <<caseVars, driverVars>>

(* --------- one call of test_single_download_link on any page ---------- *)
Init ==
  /\ \E p \in Pages(MaxRows, MaxAnchors) : CaseStart(p)
  /\ dpc = "call"
  /\ ncases = 1
  /\ df = <<NoRow(1)>>
  /\ index = 1
  /\ pagesOpen = 1
  /\ abortAt = ""
  /\ saved = FALSE
  /\ browser = "open"
  /\ validator = NoValidator

Next == TestSingleDownloadLink

Spec == Init /\ [][Next]_vars

(* -------------------- a run of main on any dataset -------------------- *)
InitBatch ==
  /\ page = <<>>
  /\ pc = "idle"
  /\ response = ""
  /\ found = FALSE
  /\ target_row = 0
  /\ download_link = <<>>
  /\ target = None
  /\ linkState = Unchecked
  /\ armed = FALSE
  /\ popups = 0
  /\ download = <<>>
  /\ result = NoResult
  /\ scanlog = NoScan
  /\ count = NoCalls
  /\ dpc = "main"
  /\ ncases = 0
  /\ df = <<>>
  /\ index = 1
  /\ pagesOpen = 0
  /\ abortAt = ""
  /\ saved = FALSE
  /\ browser = "none"
  /\ validator = NoValidator

NextBatch == RunBatchTests \/ TestSingleDownloadLink

SpecBatch == InitBatch /\ [][NextBatch]_vars

(* --- a call of validate_documents, or of _parse_validation_response ---- *)
InitValidator ==
  /\ page = <<>>
  /\ pc = "idle"
  /\ response = ""
  /\ found = FALSE
  /\ target_row = 0
  /\ download_link = <<>>
  /\ target = None
  /\ linkState = Unchecked
  /\ armed = FALSE
  /\ popups = 0
  /\ download = <<>>
  /\ result = NoResult
  /\ scanlog = NoScan
  /\ count = NoCalls
  /\ dpc = "idle"
  /\ ncases = 0
  /\ df = <<>>
  /\ index = 1
  /\ pagesOpen = 0
  /\ abortAt = ""
  /\ saved = FALSE
  /\ browser = "none"
  /\ \/ \E client \in BOOLEAN, docs \in SUBSET {"blank", "sample"},
           content \in Responses, data \in Objects :
          validator = [pc |-> "start", client |-> client, docs |-> docs,
                       content |-> content, data |-> data, result |-> NewResult,
                       calls |-> 0, failed |-> "", parsed |-> FALSE]
     \/ \E content \in Responses, data \in Objects, prior \in PriorSets :
          validator = [pc |-> "parse", client |-> TRUE, docs |-> {"blank", "sample"},
                       content |-> content, data |-> data,
                       result |-> WithReasons(NewResult, prior, "prior"),
                       calls |-> 0, failed |-> "", parsed |-> FALSE]

NextValidator == CheckClient \/ PrepareImages \/ CallApi \/ ParseResponse

SpecValidator == InitValidator /\ [][NextValidator]_vars

(* =========================== the claims =============================== *)
\* ScanRows has run in this call
Scanned == count.scan > 0

\* the row has an anchor whose text matches element_name
HasMatch(row) == \E i \in 1..Len(row) : row[i].text

\* its first such anchor, in document order
FirstMatch(row) ==
  CHOOSE i \in 1..Len(row) : row[i].text /\ \A j \in 1..(i - 1) : ~row[j].text

\* the string has "kbbg" in it, in exactly these letters
HasKbbg(v) ==
  \E k \in 1..Len(v) :
    k + 3 <= Len(v) /\ v[k] = "k" /\ v[k + 1] = "b" /\ v[k + 2] = "b" /\ v[k + 3] = "g"

UpperChar(c) ==
  CASE c = "d" -> "D" [] c = "o" -> "O" [] c = "w" -> "W" [] c = "n" -> "N"
    [] c = "l" -> "L" [] c = "a" -> "A" [] c = "k" -> "K" [] c = "b" -> "B"
    [] c = "g" -> "G" [] OTHER -> c

\* the string has the word w in it, in any letter-case
HasAnyCase(w, v) ==
  \E k \in 1..Len(v) :
    /\ k + Len(w) - 1 <= Len(v)
    /\ \A j \in 1..Len(w) : v[k + j - 1] \in {w[j], UpperChar(w[j])}

\* the attribute is there and is not the empty string
NonEmpty(a) == a.present /\ Len(a.value) > 0

\* the signals of an anchor as the code reads them
Signals(a) ==
  \/ NonEmpty(a.href)
  \/ NonEmpty(a.onclick)
  \/ a.class.present /\ (HasKbbg(a.class.value) \/ HasAnyCase(downloadStr, a.class.value))

\* the first matching anchor of the row has a signal
FirstLinkSignals(row) == HasMatch(row) /\ Signals(row[FirstMatch(row)])

\* C1: when the scan has run without a query raising and some row passes the
\* strict test, the selected row is the first row in document order that
\* passes it; no later row and no earlier row that only has a matching anchor
\* is selected in its place.
C1_FirstStrictRowWins ==
  (Scanned /\ ~scanlog.raised /\ \E i \in 1..Len(page) : FirstLinkSignals(page[i]))
    => /\ found
       /\ target_row \in 1..Len(page)
       /\ FirstLinkSignals(page[target_row])
       /\ \A j \in 1..(target_row - 1) : ~FirstLinkSignals(page[j])
       /\ scanlog.strict = target_row
       /\ ~scanlog.usedFallback

\* a page whose first row has a matching anchor that fails the strict test
\* and whose second row passes it: the second row is selected
C1_Witness ==
  /\ Scanned
  /\ Len(page) = 2
  /\ HasMatch(page[1])
  /\ ~FirstLinkSignals(page[1])
  /\ FirstLinkSignals(page[2])
  /\ target_row = 2

\* the rows the strict pass accepted: the row selected without the fallback
StrictAccepted(i) == found /\ target_row = i /\ ~scanlog.usedFallback

\* the strict test as the claim C2 words it: some matching anchor of the row
\* has href present, onclick present, or a marker in its class in any case
ClaimedStrict(row) ==
  \E i \in 1..Len(row) :
    /\ row[i].text
    /\ \/ row[i].href.present
       \/ row[i].onclick.present
       \/ /\ row[i].class.present
          /\ \/ HasAnyCase(kbbgStr, row[i].class.value)
             \/ HasAnyCase(downloadStr, row[i].class.value)

\* C2 as stated: every row the strict pass examined is accepted exactly when
\* one of its matching anchors has href, onclick or a marker in any case.
C2_AnyAnchorAnyCase ==
  (Scanned /\ ~scanlog.raised)
    => \A i \in 1..scanlog.strict : StrictAccepted(i) <=> ClaimedStrict(page[i])

\* C2 amended: every row the strict pass examined is accepted exactly when its
\* first matching anchor has a non-empty href, a non-empty onclick, or a class
\* holding "kbbg" in lower case or "download" in any case.
C2_FirstAnchorSignals ==
  (Scanned /\ ~scanlog.raised)
    => \A i \in 1..scanlog.strict : StrictAccepted(i) <=> FirstLinkSignals(page[i])

\* the strict pass skipped a row whose second matching anchor has an href,
\* and accepted a later row
C2_Witness ==
  /\ Scanned
  /\ ~scanlog.raised
  /\ Len(page) = 2
  /\ ClaimedStrict(page[1])
  /\ ~FirstLinkSignals(page[1])
  /\ StrictAccepted(2)

\* no row passes the strict test and some row has a matching anchor
OnlyFallbackMatches ==
  /\ \A i \in 1..Len(page) : ~FirstLinkSignals(page[i])
  /\ \E i \in 1..Len(page) : HasMatch(page[i])

\* the first row of the page with a matching anchor
FirstMatchingRow ==
  CHOOSE i \in 1..Len(page) : HasMatch(page[i]) /\ \A j \in 1..(i - 1) : ~HasMatch(page[j])

\* the matching anchors of the row that carry the class kbbg
KbbgMatches(row) ==
  {i \in 1..Len(row) : row[i].text /\ row[i].class.present /\ row[i].class.value = kbbgStr}

\* LocateLink has chosen download_link in this call
LinkChosen == pc \in {"linkvisible", "attrs", "click", "waitdl", "popupload", "popupdl",
                      "popupclose", "save"}

LinkNotFoundReason == <<"NOT_FOUND">>

\* C4 as stated: on a page without a row containing material_name the case
\* fails without a click, with a reason other than the one for a missing link.
C4_DistinctReason ==
  (Scanned /\ Len(page) = 0)
    => /\ pc = "ret"
       /\ result.status = "FAILURE"
       /\ count.click = 0
       /\ result.message # LinkNotFoundReason

\* C4 amended: on a page without a row containing material_name the case
\* fails without a click with the not-found reason of line 136, the same
\* reason as when rows exist but none has the link.
C4_NoRowNotFound ==
  (Scanned /\ Len(page) = 0)
    => /\ pc = "ret"
       /\ result.status = "FAILURE"
       /\ result.message = LinkNotFoundReason
       /\ result.details = <<>>
       /\ count.click = 0
       /\ target_row = 0

C4_Witness == Scanned /\ Len(page) = 0 /\ ~scanlog.raised /\ pc = "ret"

\* rows exist and none of them has an anchor whose text matches
RowsWithoutLink == Len(page) > 0 /\ \A i \in 1..Len(page) : ~HasMatch(page[i])

\* C5: when rows containing material_name exist but none has a matching
\* anchor, neither pass selects a row (each looks at every row unless a query
\* raises) and the case fails with the not-found reason without a click.
C5_NoLinkNotFound ==
  (Scanned /\ RowsWithoutLink)
    => /\ ~found
       /\ target_row = 0
       /\ pc = "ret"
       /\ result.status = "FAILURE"
       /\ result.message = LinkNotFoundReason
       /\ count.click = 0
       /\ ~scanlog.raised => scanlog.strict = Len(page) /\ scanlog.fallback = Len(page)

\* two rows, one holding an anchor with another text, both passes ran dry
C5_Witness ==
  /\ Scanned
  /\ RowsWithoutLink
  /\ Len(page) = 2
  /\ \E i \in 1..2 : Len(page[i]) > 0
  /\ scanlog.fallback = 2
  /\ pc = "ret"

\* the only row has exactly one matching anchor, and it carries an href
OneRowOneHrefLink ==
  /\ Len(page) = 1
  /\ Cardinality({i \in 1..Len(page[1]) : page[1][i].text}) = 1
  /\ page[1][FirstMatch(page[1])].href.present

\* C6: on a page whose only row has exactly one matching anchor, carrying an
\* href, the link chosen and clicked is exactly that anchor.
C6_ThatAnchor ==
  OneRowOneHrefLink
    => /\ LinkChosen => target_row = 1 /\ download_link = <<FirstMatch(page[1])>>
       /\ count.click > 0 => target_row = 1 /\ download_link = <<FirstMatch(page[1])>>
       /\ (Scanned /\ ~scanlog.raised) => target_row = 1

\* the row holds an anchor with another text before the matching one, and
\* the matching one has been clicked
C6_Witness ==
  /\ OneRowOneHrefLink
  /\ Len(page[1]) = 2
  /\ FirstMatch(page[1]) = 2
  /\ count.click = 1
  /\ download_link = <<2>>

\* C7, with the marker read as the class kbbg, the one marker the choice of
\* line 158 looks for: when several anchors of the accepted row match, the
\* link chosen denotes exactly one anchor, one of class kbbg when a matching
\* anchor has that class, the first matching anchor otherwise.
C7_MarkedElseFirst ==
  (LinkChosen /\ Cardinality({i \in 1..Len(page[target_row]) : page[target_row][i].text}) > 1)
    => LET row == page[target_row]
       IN  /\ Len(download_link) = 1
           /\ IF KbbgMatches(row) # {}
                THEN download_link[1] \in KbbgMatches(row)
                ELSE download_link[1] = FirstMatch(row)

\* C8 as stated: click() is called only on an anchor verified visible and
\* enabled; an anchor that is not visible or not enabled when the wait ends is
\* never clicked and the case fails with a reason of its own, neither the
\* catch-all nor the download failure.
C8_VisibleAndEnabled ==
  /\ count.click > 0 => linkState.checked /\ linkState.visible /\ linkState.enabled
  /\ (linkState.checked /\ ~(linkState.visible /\ linkState.enabled))
       => /\ count.click = 0
          /\ pc = "ret" => /\ result.status = "FAILURE"
                           /\ result.message[1] \notin {"UNEXPECTED_ERROR", "DOWNLOAD_FAILED"}

\* C8 amended: click() is called only on an anchor verified visible by the
\* wait of line 167; an anchor not visible when that wait ends is never
\* clicked and the case fails through the catch-all handler. Whether the
\* anchor is enabled is not verified: click() is called all the same and the
\* case then fails with the download-failure reason.
C8_VisibleOnly ==
  /\ count.click > 0 => linkState.checked /\ linkState.visible /\ Len(download_link) = 1
  /\ (linkState.checked /\ ~linkState.visible)
       => /\ count.click = 0
          /\ pc \in {"except", "ret"}
          /\ pc = "ret" => /\ result.status = "FAILURE"
                           /\ result.message[1] = "UNEXPECTED_ERROR"
  /\ (linkState.checked /\ linkState.visible /\ ~linkState.enabled /\ pc = "ret"
        /\ count.click > 0)
       => result = Fail(<<"DOWNLOAD_FAILED">>)

\* the only anchor the link denotes was not visible; the case has failed
C8_Witness ==
  /\ pc = "ret"
  /\ Len(download_link) = 1
  /\ linkState.checked
  /\ ~linkState.visible
  /\ result.status = "FAILURE"

\* the positions of test_single_download_link short of its return; each has
\* its step in TestSingleDownloadLink
CasePositions ==
  {"goto", "loadwait", "scan", "rowvisible", "locate", "linkvisible", "attrs", "click",
   "waitdl", "popupload", "popupdl", "popupclose", "save", "except"}

\* C9: test_single_download_link never leaves by an exception: it is at one
\* of its steps or has returned, and what it returns is a 4-tuple whose
\* status is "SUCCESS" or "FAILURE" with a non-empty reason.
C9_NeverRaises ==
  /\ pc # "raised"
  /\ pc \in CasePositions \cup {"ret"}
  /\ pc = "ret"
       => /\ DOMAIN result = {"status", "message", "details", "file_type"}
          /\ result.status \in {"SUCCESS", "FAILURE"}
          /\ Len(result.message) > 0
          /\ result.status = "FAILURE" => result.details = <<>> /\ result.file_type = <<>>

\* the catch-all handler ran and its screenshot failed as well: the case
\* returned the failure tuple without a screenshot name
C9_Witness ==
  /\ pc = "ret"
  /\ count.screenshot = 1
  /\ result = Fail(<<"UNEXPECTED_ERROR">>)

\* C10: once the input is read and the browser launched, no failure while
\* handling a case abandons the run, and every row of df has a result before
\* the browser is closed.
C10_NoCaseFailureAborts ==
  /\ abortAt \notin {"new_page failed", "page.close failed"}
  /\ dpc \in {"browserclose", "save", "done"}
       => \A k \in 1..ncases : df[k].exec_time # "" /\ df[k].exec_result # <<>>

\* the driver is between two cases, or past the last one
BetweenCases == dpc \in {"main", "read", "launch", "loop", "browserclose", "save", "done"}

\* C11: the driver handles the cases one after the other on one page each:
\* a case runs on the only open case page, and whenever the driver is at the
\* top of its loop (about to open the page of the next case) or past the loop,
\* the page of the case before is closed, whatever that case returned; two
\* case pages are never open together
C11_OnePageAtATime ==
  /\ pagesOpen \in {0, 1}
  /\ dpc = "call" => pagesOpen = 1
  /\ BetweenCases => pagesOpen = 0

\* the second case runs on its page after the first ended in the catch-all
\* handler and its page was closed
C11_Witness ==
  /\ dpc = "call"
  /\ index = 2
  /\ pagesOpen = 1
  /\ pc = "goto"
  /\ Len(df[1].exec_result) >= 2
  /\ df[1].exec_result[2] = "UNEXPECTED_ERROR"

\* the run has ended
RunEnded == dpc \in {"done", "aborted"}

\* every row of df has been handled and its result written
AllRowsRecorded == \A k \in 1..Len(df) : df[k].exec_result # <<>>

\* the aborts of lines 260-272 and 381-383 (a file that cannot be read is
\* taken with the missing file), and a browser that cannot be started
InputAborts == {"no input file", "read failed", "missing columns"}

\* C12: a missing (or unreadable) input file and a missing required column end
\* the run before a browser is launched, with no page opened and no results
\* file written; and, a browser that cannot be started aside, every other run
\* ends with every row handled and the results file written
C12_OnlyInputAborts ==
  /\ abortAt \in InputAborts =>
       /\ browser = "none"
       /\ pagesOpen = 0
       /\ pc = "idle"
       /\ ~saved
  /\ (RunEnded /\ abortAt \notin InputAborts \cup {"launch failed"}) =>
       /\ saved
       /\ Len(df) = ncases
       /\ AllRowsRecorded

\* C13: the results file holds the rows of the input, as many and in the same
\* order, with their input fields as they were read, and every row has a
\* time of execution and a result that begins with the status SUCCESS or FAILURE
C13_ResultsDataset ==
  saved =>
    /\ Len(df) = ncases
    /\ \A k \in 1..Len(df) :
         /\ df[k].input = k
         /\ df[k].exec_time # ""
         /\ Len(df[k].exec_result) >= 2
         /\ df[k].exec_result[1] \in {"SUCCESS", "FAILURE"}

\* a results file of two rows, the first a success and the second a failure
C13_Witness ==
  /\ saved
  /\ Len(df) = 2
  /\ df[1].exec_result[1] = "SUCCESS"
  /\ df[2].exec_result[1] = "FAILURE"

\* the driver writes the tuple of the finished call to its row in this step
Records == dpc = "call" /\ pc = "ret" /\ dpc' = "close"

\* the extension of a file name as the claim C14 words it: what follows the
\* last dot, in lower case, nothing if the name has no dot
ClaimedExt(name) ==
  IF \E d \in 1..Len(name) : name[d] = "."
    THEN LET d == CHOOSE e \in 1..Len(name) :
                    name[e] = "." /\ \A j \in (e + 1)..Len(name) : name[j] # "."
         IN  [i \in 1..(Len(name) - d) |-> LowerChar(name[d + i])]
    ELSE <<>>

\* the anchor chosen in the target row carries a non-empty href
ChosenHasHref ==
  /\ found
  /\ target_row \in 1..Len(page)
  /\ Len(download_link) = 1
  /\ NonEmpty(page[target_row][download_link[1]].href)

\* C14: when the page has the target row, the anchor chosen in it carries an
\* href, the click yields a download and nothing after it fails, the row of
\* the dataset is written with the status SUCCESS and with the extension of
\* the downloaded file, in lower case and without its dot
C14_SuccessRecorded ==
  [][(/\ Records
      /\ ChosenHasHref
      /\ download # <<>>
      /\ result.message # <<"DOWNLOAD_FAILED">>)
     => /\ df'[index].exec_result = <<"SUCCESS", "DOWNLOADED">>
        /\ df'[index].file_format = ClaimedExt(download)
        /\ df'[index].exec_time # ""]_vars

\* the row of a page whose anchor has an href is written as a success with
\* the file format pdf
C14_Witness ==
  /\ dpc = "close"
  /\ Len(page) = 1
  /\ \E i \in 1..Len(page[1]) : page[1][i].text /\ NonEmpty(page[1][i].href)
  /\ df[index].exec_result = <<"SUCCESS", "DOWNLOADED">>
  /\ df[index].file_format = <<"p", "d", "f">>

\* the reasons whose text has "not found" in it (lines 136 and 153)
NotFoundReasons == {"NOT_FOUND", "LINK_NOT_IN_ROW"}

\* no row of the page has an anchor whose text matches: the page has no
\* target row
NoTargetRow == \A i \in 1..Len(page) : ~HasMatch(page[i])

\* C15: when the page was reached and has no target row, the row of the
\* dataset is written with the status FAILURE, a reason that says not found,
\* and an empty file format
C15_AbsentRowRecorded ==
  [][(Records /\ Scanned /\ NoTargetRow)
     => /\ Len(df'[index].exec_result) = 2
        /\ df'[index].exec_result[1] = "FAILURE"
        /\ df'[index].exec_result[2] \in NotFoundReasons
        /\ df'[index].file_format = <<>>]_vars

\* the row of a page without rows is written as not found
C15_Witness ==
  /\ dpc = "close"
  /\ pagesOpen = 1
  /\ Len(page) = 0
  /\ df[index].exec_result = <<"FAILURE", "NOT_FOUND">>
  /\ df[index].file_format = <<>>

\* C16: a row selected by the strict or by the fallback pass holds an anchor
\* whose text matches element_name; a row without one is never selected
C16_SelectedRowHasLink ==
  /\ (found \/ target_row # 0) =>
       /\ target_row \in 1..Len(page)
       /\ HasMatch(page[target_row])
  /\ \A i \in 1..Len(page) : ~HasMatch(page[i]) => target_row # i

\* the fallback pass went past a first row whose only anchor has another text
\* and selected the second row
C16_Witness ==
  /\ found
  /\ scanlog.usedFallback
  /\ target_row = 2
  /\ Len(page[1]) > 0
  /\ ~HasMatch(page[1])

\* C17: in one call no step is done a second time, whatever fails: the page
\* is navigated to at most once, the scan is run at most once and looks at
\* each row at most once in each pass, and the link is clicked at most once
C17_NoRetry ==
  /\ count.goto <= 1
  /\ count.scan <= 1
  /\ count.click <= 1
  /\ scanlog.strict <= Len(page)
  /\ scanlog.fallback <= Len(page)
  /\ pc = "goto" => count.goto = 0
  /\ pc \in {"loadwait", "scan"} => count.scan = 0
  /\ pc \in {"rowvisible", "locate", "linkvisible", "attrs", "click"} => count.click = 0

\* the call has ended after a click that brought no download: one navigation,
\* one scan, one click
C17_Witness ==
  /\ pc = "ret"
  /\ result = Fail(<<"DOWNLOAD_FAILED">>)
  /\ download = <<>>
  /\ count.goto = 1
  /\ count.scan = 1
  /\ count.click = 1

\* the call has ended after a click that brought no download event
NoDownloadAfterClick == pc = "ret" /\ count.click = 1 /\ download = <<>>

C20_ScreenshotBestEffort ==
  /\ count.screenshot <= 1
  /\ count.shots <= count.screenshot
  /\ pc = "except" => count.screenshot = 0
  /\ pc # "raised"
  /\ (pc = "ret" /\ count.screenshot = 1) =>
       /\ result.status = "FAILURE"
       /\ result.message[1] = "UNEXPECTED_ERROR"
       /\ (count.shots = 1 <=> result.message = <<"UNEXPECTED_ERROR", "screenshot">>)
       /\ (count.shots = 0 <=> result.message = <<"UNEXPECTED_ERROR">>)
  /\ (pc = "ret" /\ count.screenshot = 0) =>
       /\ result.message[1] # "UNEXPECTED_ERROR"
       /\ \A i \in 1..Len(result.message) : result.message[i] # "screenshot"

\* the link was not visible, the screenshot was captured and the failure
\* returned names it
C20_Witness ==
  /\ pc = "ret"
  /\ linkState.checked /\ ~linkState.visible
  /\ count.screenshot = 1
  /\ count.shots = 1
  /\ result = Fail(<<"UNEXPECTED_ERROR", "screenshot">>)

\* C21: a step changes a row of df only when it records the outcome of the
\* case of that row: the row is row index, its result columns were empty
\* until then (so a result once written is never written again) and its input
\* fields stay as they were; the rows before index are written, the rows
\* after it are not, and past the loop every row is written
C21_RecordingFrame ==
  [][/\ \A k \in 1..Len(df) :
          /\ k < index => df[k].exec_result # <<>>
          /\ k > index => df[k] = NoRow(k)
          /\ (Len(df') = Len(df) /\ df'[k] # df[k]) =>
               /\ dpc = "call" /\ dpc' = "close"
               /\ k = index
               /\ df[k] = NoRow(k)
               /\ df'[k].input = df[k].input
               /\ df'[k].exec_result # <<>>
     /\ df # <<>> => Len(df') = Len(df)
     /\ dpc \in {"browserclose", "save", "done"} => AllRowsRecorded]_vars

\* the outcome of the second case has been written and the success written
\* for the first case is still there
C21_Witness ==
  /\ dpc = "close"
  /\ index = 2
  /\ df[2].exec_result[1] = "FAILURE"
  /\ df[1].exec_result = <<"SUCCESS", "DOWNLOADED">>
  /\ df[1].file_format # <<>>

\* text without braces and without fences
PlainText(t) == \A i \in 1..Len(t) : t[i] \in {"x", " "}

\* one object, bare or inside a fence that is closed or not
EmbeddedObjects ==
  { <<"{", "members", "}">>,
    <<"fence_json", "{", "members", "}", "fence">>,
    <<"fence_json", " ", "{", "members", "}", " ", "fence">>,
    <<"fence_json", "{", "members", "}">> }

\* the responses of C22: text, then one object, then text
ClaimedShape(c) ==
  \E i \in 0..Len(c) : \E j \in i..Len(c) :
    /\ PlainText(SubSeq(c, 1, i))
    /\ SubSeq(c, i + 1, j) \in EmbeddedObjects
    /\ PlainText(SubSeq(c, j + 1, Len(c)))

\* every verdict key of the object is in the result with its reason
VerdictsCopied ==
  \A k \in DOMAIN validator.data :
    /\ validator.result.verdict[k] = validator.data[k].value
    /\ validator.result.reason[k] = validator.data[k].reason

\* C22: once _parse_validation_response has run on a response made of text,
\* one object (bare, or in a fence that is closed or not) and text, every
\* verdict key of the object is in the result together with its reason
C22_EmbeddedObjectCopied ==
  (validator.parsed /\ ClaimedShape(validator.content)) => VerdictsCopied

\* C23: when page.goto returns no response or a response that is not OK, the
\* call has returned at once: a failure whose reason is the navigation
\* failure with the status (or the words for no response), and on that page
\* no row was looked up, nothing clicked, no download wait armed and no
\* screenshot taken
C23_NavigationFailure ==
  (response \in {"none"} \cup {st \in Statuses : st # "200"}) =>
    /\ pc = "ret"
    /\ result = Fail(<<"NAVIGATION_FAILED", IF response = "none" THEN "no response" ELSE response>>)
    /\ count = [NoCalls EXCEPT !.goto = 1]
    /\ scanlog = NoScan
    /\ ~found /\ target_row = 0 /\ download_link = <<>>
    /\ ~armed
    /\ download = <<>>

\* the response had the status 404 on a page that has a row with a link
C23_Witness ==
  /\ response = "404"
  /\ pc = "ret"
  /\ Len(page) > 0 /\ HasMatch(page[1])
  /\ result.message = <<"NAVIGATION_FAILED", "404">>

\* C24: once the link has been clicked, a wait for the download event was
\* registered before the click, whether the link opens in the same page or,
\* with target "_blank", in a new one
C24_ArmedBeforeClick == count.click > 0 => armed

\* C25: when a call returns, the page that a click on a target "_blank" link
\* opened is closed, and no such page is open when the driver starts a case
C25_PopupClosed ==
  /\ pc = "ret" => popups = 0
  /\ (dpc = "call" /\ pc = "goto") => popups = 0

\* the aborts that come from a browser call that raises
BrowserAborts == {"launch failed", "new_page failed", "page.close failed", "browser.close failed"}

\* C26: a run on a dataset that was read and has the required columns, the
\* dataset without rows included, ends past the save step with the browser
\* closed and every row handled, unless a call on the browser raised
C26_ReachesSave ==
  (RunEnded /\ abortAt \notin InputAborts \cup BrowserAborts) =>
    /\ dpc = "done"
    /\ browser = "closed"
    /\ pagesOpen = 0
    /\ AllRowsRecorded

\* C27: when a page query raises during the scan, the scan ends there: a
\* raise in the strict pass leaves the fallback pass unrun, no row is
\* selected, and the call returns the not-found failure without a
\* screenshot and without a click
C27_ScanExceptionSwallowed ==
  scanlog.raised =>
    /\ pc = "ret"
    /\ result = Fail(<<"NOT_FOUND">>)
    /\ ~found /\ target_row = 0
    /\ ~scanlog.usedFallback => scanlog.fallback = 0
    /\ scanlog.strict <= Len(page) /\ scanlog.fallback <= Len(page)
    /\ scanlog.strict + scanlog.fallback < 2 * Len(page) + 1
    /\ count.screenshot = 0
    /\ count.click = 0
    /\ download_link = <<>>

\* a query raised on the first row of a page whose second row the strict
\* pass would have accepted
C27_Witness ==
  /\ scanlog.raised
  /\ pc = "ret"
  /\ Len(page) = 2
  /\ scanlog.strict = 1
  /\ FirstLinkSignals(page[2])

\* C28: the wait for network idle after a navigation that succeeded leads to
\* the row scan whether it times out or not, with nothing else changed: no
\* result is set and no screenshot taken, and the scan starts from the same
\* page and the same locals
C28_LoadWaitTimeoutIgnored ==
  [][pc = "loadwait" =>
       /\ pc' = "scan"
       /\ response = "200"
       /\ result' = NoResult
       /\ count'.screenshot = 0 /\ count'.scan = 0 /\ count'.goto = 1
       /\ UNCHANGED <<page, found, target_row, download_link, target, linkState, armed,
                      popups, download, scanlog>>]_vars

\* the wait timed out and the call went on to a successful download
C28_Witness ==
  /\ pc = "ret"
  /\ count.timeouts = 1
  /\ target = None
  /\ result.status = "SUCCESS"

\* C29: a returned tuple and a written row carry a file type (and the tuple a
\* file path) only with the status SUCCESS; a failure has neither; and
\* SUCCESS is returned only when save_as has written the download into the
\* download directory
C29_FileOnlyOnSuccess ==
  /\ pc = "ret" =>
       /\ result.status \in {"SUCCESS", "FAILURE"}
       /\ (result.file_type # <<>> \/ result.details # <<>>) => result.status = "SUCCESS"
       /\ result.status = "FAILURE" =>
            /\ result.file_type = <<>>
            /\ result.details = <<>>
            /\ count.saves = 0
       /\ result.status = "SUCCESS" =>
            /\ count.saves = 1
            /\ download \in FileNames
            /\ result.details = <<"downloads/">> \o download
  /\ \A k \in 1..Len(df) :
       /\ df[k].file_format # <<>> =>
            df[k].exec_result # <<>> /\ df[k].exec_result[1] = "SUCCESS"
       /\ (df[k].exec_result # <<>> /\ df[k].exec_result[1] = "FAILURE") =>
            df[k].file_format = <<>>

\* a download whose name has no extension was saved: the row is a success
\* with an empty file format
C29_Witness ==
  /\ dpc = "close"
  /\ df[index].exec_result = <<"SUCCESS", "DOWNLOADED">>
  /\ df[index].file_format = <<>>

\* every verdict of the result is None
NoVerdict == \A k \in Keys : validator.result.verdict[k] = "None"

\* C30: a call of validate_documents ends by returning, never by raising;
\* without a client no API call is made and every reason says so; when the
\* images, the API call or the parsing of the response fail, every verdict
\* is still None and only reasons were set; and a failed parse changes
\* exactly the reasons that were empty
C30_FailedValidationUndetermined ==
  [][/\ validator.pc \in {"idle", "start", "images", "api", "parse", "done"}
     /\ validator.pc \in {"start", "images", "api"} => validator'.pc # validator.pc
     /\ ~validator.client => validator.calls = 0
     /\ validator.failed # "" =>
          /\ validator.pc = "done"
          /\ NoVerdict
     /\ validator.failed = "client" =>
          \A k \in Keys : validator.result.reason[k] = "CLIENT_UNAVAILABLE"
     /\ validator.failed = "api" =>
          /\ validator.calls = 1
          /\ ~validator.parsed
          /\ \A k \in Keys : validator.result.reason[k] \in {"", "API_FAILED"}
     /\ (validator.pc = "parse" /\ validator'.pc = "done") =>
          /\ validator'.failed = "parse" <=> ~JsonLoads(ExtractJson(validator.content))
          /\ validator'.failed = "parse" =>
               /\ validator'.result.verdict = validator.result.verdict
               /\ \A k \in Keys :
                    validator'.result.reason[k] =
                      IF validator.result.reason[k] = ""
                        THEN "PARSE_FAILED"
                        ELSE validator.result.reason[k]]_vars

\* the parse of a response failed on a result that had one reason filled:
\* that reason is kept, the empty ones say that the parse failed
C30_Witness ==
  /\ validator.pc = "done"
  /\ validator.failed = "parse"
  /\ NoVerdict
  /\ validator.result.reason["forms_consistent"] = "prior"
  /\ validator.result.reason["blank_form_matches"] = "PARSE_FAILED"

====
